---------------------------- MODULE Spec2Model ----------------------------
(***************************************************************************)
(* State-machine model of the NextCloudRag ingestion path:                 *)
(*   webhook-gateway  -> Redis list "rag_queue" -> indexer-worker          *)
(*                                              -> acl-worker              *)
(* Strings stand for Python str values; None is Python's None.  Paths and  *)
(* class names are sequences of tokens (TLC cannot look inside a string),  *)
(* with "/" a token of its own.                                            *)
(***************************************************************************)
EXTENDS Integers, Sequences, FiniteSets, TLC

VARIABLES
    WEBHOOK_SECRET,  \* gateway main.py:19, read once from the environment
    redis_client,    \* gateway main.py:23-27: TRUE = client object, FALSE = None
    queue,           \* the Redis list rag_queue; head = left end (LPUSH side)
    nPushed,         \* ghost: number of entries ever pushed (delivery tags)
    req,             \* last request the gateway handled
    resp,            \* its response: [status, detail]
    pushedBy,        \* ghost: tag pushed by the last request, 0 if none
    redisUp,         \* ghost: the last request's LPUSH returned (TRUE if it made none)
    pc,              \* indexer-worker: where each instance is in main/process_job
    cur,             \* indexer-worker: the job an instance is processing
    tmpFiles,        \* temporary files on the indexer's disk (named by job tag)
    db,              \* Postgres table files: set of rows, file_id the key
    index,           \* Qdrant collection documents: set of points
    hist             \* ghost: what each role did with each entry, <<tag, role, what>>

gwVars == <<WEBHOOK_SECRET, redis_client, queue, nPushed, req, resp, pushedBy, redisUp>>
wkVars == <<pc, cur, tmpFiles, db, index, hist>>
vars == <<WEBHOOK_SECRET, redis_client, queue, nPushed, req, resp, pushedBy, redisUp,
          pc, cur, tmpFiles, db, index, hist>>

None == "<None>"

-----------------------------------------------------------------------------
(* Bounds *)

MaxJobs == 3

-----------------------------------------------------------------------------
(* Python truthiness of an optional str: None and "" are falsy.            *)
Truthy(s) == s # None /\ s # ""

(* Mutant: b or a *)
PyOr_Second(a, b) == IF Truthy(b) THEN b ELSE a

(* a or b on optional strs (gateway main.py:66) *)
PyOr(a, b) == IF Truthy(a) THEN a ELSE b


-----------------------------------------------------------------------------
(* Notification bodies.  A raw body is the byte string of the request; the *)
(* parsed payload is a record with one field per key the workers read.     *)

NonePath == <<None>>          \* payload.get("path") when the key is absent

(* A parsed JSON object, flattened to the keys the code reads:             *)
(*   eventIsDict  isinstance(payload["event"], dict)                       *)
(*   event        payload["event"] when it is a str, else None             *)
(*   class        payload["event"]["class"], a token sequence              *)
(*   node_id, node_path, node_etag      payload["event"]["node"][...]      *)
(*   file_id, path, etag                top-level keys of the flat shape   *)
Payload(isDict, ev, cls, nid, npath, netag, fid, path, etag) ==
    [eventIsDict |-> isDict, event |-> ev, class |-> cls,
     node_id |-> nid, node_path |-> npath, node_etag |-> netag,
     file_id |-> fid, path |-> path, etag |-> etag]

Flat(ev, fid, path, etag) ==
    Payload(FALSE, ev, <<>>, None, NonePath, None, fid, path, etag)

Structured(cls, nid, npath, netag) ==
    Payload(TRUE, None, cls, nid, npath, netag, None, NonePath, None)

EmptyObject == Flat(None, None, NonePath, None)

(* The JSON number 7 (a str and an int never compare equal in Python). *)
Int7 == "int:7"

DocsA == <<"Docs", "/", "a.pdf">>
FilesAliceDocsA == <<"/", "files", "/", "alice", "/", "Docs", "/", "a.pdf">>

B_FlatCreated  == "{\"event\":\"file.created\",\"file_id\":\"f1\",\"path\":\"Docs/a.pdf\",\"etag\":\"e1\"}"
B_FlatCreatedSp == "{\"event\": \"file.created\", \"file_id\": \"f1\", \"path\": \"Docs/a.pdf\", \"etag\": \"e1\"}"
B_FlatUpdated  == "{\"event\":\"file.updated\",\"file_id\":\"f1\",\"path\":\"Docs/a.pdf\",\"etag\":\"e2\"}"
B_FlatDeleted  == "{\"event\":\"file.deleted\",\"file_id\":\"f1\",\"path\":\"Docs/a.pdf\"}"
B_FlatAcl      == "{\"event\":\"acl.changed\",\"file_id\":\"f1\",\"path\":\"Docs/a.pdf\"}"
B_FlatMoved    == "{\"event\":\"file.moved\",\"file_id\":\"f1\",\"path\":\"Docs/a.pdf\"}"
B_NodeCreated  == "{\"event\":{\"class\":\"NodeCreatedEvent\",\"node\":{\"id\":7,\"path\":\"/files/alice/Docs/a.pdf\"}}}"
B_NodeRenamed  == "{\"event\":{\"class\":\"NodeRenamedEvent\",\"node\":{\"id\":7,\"path\":\"/files/alice/Docs/a.pdf\"}}}"
B_EmptyObject  == "{}"
B_Array        == "[1]"
B_NotJson      == "{not json"
B_BadUtf8      == "<byte 0xff>"

ObjectBodies ==
    {B_FlatCreated, B_FlatCreatedSp, B_FlatUpdated, B_FlatDeleted, B_FlatAcl,
     B_FlatMoved, B_NodeCreated, B_NodeRenamed, B_EmptyObject}

RawBodies == ObjectBodies \cup {B_Array, B_NotJson, B_BadUtf8}

(* json.loads on the raw bodies above: what request.json() returns or      *)
(* raises.  kind is "object", "other" (valid JSON, not an object),         *)
(* "JSONDecodeError" or "UnicodeDecodeError".                              *)
ParseJson(raw) ==
    CASE raw = B_FlatCreated   -> [kind |-> "object", value |-> Flat("file.created", "f1", DocsA, "e1")]
      [] raw = B_FlatCreatedSp -> [kind |-> "object", value |-> Flat("file.created", "f1", DocsA, "e1")]
      [] raw = B_FlatUpdated   -> [kind |-> "object", value |-> Flat("file.updated", "f1", DocsA, "e2")]
      [] raw = B_FlatDeleted   -> [kind |-> "object", value |-> Flat("file.deleted", "f1", DocsA, None)]
      [] raw = B_FlatAcl       -> [kind |-> "object", value |-> Flat("acl.changed", "f1", DocsA, None)]
      [] raw = B_FlatMoved     -> [kind |-> "object", value |-> Flat("file.moved", "f1", DocsA, None)]
      [] raw = B_NodeCreated   -> [kind |-> "object", value |-> Structured(<<"Node", "CreatedEvent">>, Int7, FilesAliceDocsA, None)]
      [] raw = B_NodeRenamed   -> [kind |-> "object", value |-> Structured(<<"Node", "RenamedEvent">>, Int7, FilesAliceDocsA, None)]
      [] raw = B_EmptyObject   -> [kind |-> "object", value |-> EmptyObject]
      [] raw = B_Array         -> [kind |-> "other", value |-> EmptyObject]
      [] raw = B_BadUtf8       -> [kind |-> "UnicodeDecodeError", value |-> EmptyObject]
      [] OTHER                 -> [kind |-> "JSONDecodeError", value |-> EmptyObject]

-----------------------------------------------------------------------------
(* webhook-gateway *)

PLACEHOLDER_TOKEN == "insecure-placeholder-for-now"

(* hmac.new(key, msg, sha256).hexdigest(): a lowercase hex str that        *)
(* depends on the key and on every byte of msg.                            *)
HexDigest(key, msg) == "hmac-sha256(" \o key \o "," \o msg \o ")"

(* Header values that hold a character outside ASCII (Starlette decodes    *)
(* header bytes as latin-1).                                               *)
NonAsciiStrings == {"\\xe9"}
IsAscii(s) == s \notin NonAsciiStrings

(* hmac.compare_digest(a, b) on two strs: TypeError unless both are ASCII. *)
compare_digest(a, b) ==
    IF IsAscii(a) /\ IsAscii(b) THEN (IF a = b THEN "True" ELSE "False")
    ELSE "TypeError"

(* gateway main.py:37-50 *)
verify_signature(request_body, signature) ==
    IF ~Truthy(signature) THEN "False"
    ELSE compare_digest(HexDigest(WEBHOOK_SECRET, request_body), signature)

(* Mutant: the guard at gateway main.py:69 never fires *)
MissingAuth_Never(signature, nc_token) == FALSE

(* gateway main.py:69: the request carries no usable credential *)
MissingAuth(signature, nc_token) == ~Truthy(signature) /\ ~Truthy(nc_token)

(* gateway main.py:80 *)
TokenAccepted(nc_token) == nc_token = PLACEHOLDER_TOKEN

Response(status, detail) == [status |-> status, detail |-> detail]

(* gateway main.py:66-84: "ok", or the response that ends the request.     *)
(* An exception that is no HTTPException leaves the handler and the        *)
(* framework answers 500.                                                  *)
Authenticate(r) ==
    LET signature == PyOr(r.xSigSha256, r.xSig)
        nc_token  == r.token
    IN  IF MissingAuth(signature, nc_token)
        THEN Response(401, "Missing auth")
        ELSE IF Truthy(signature)
        THEN CASE verify_signature(r.body, signature) = "True"  -> Response(0, "ok")
               [] verify_signature(r.body, signature) = "False" -> Response(401, "Invalid signature")
               [] OTHER -> Response(500, "Internal Server Error")
        ELSE IF Truthy(nc_token) /\ ~TokenAccepted(nc_token)
        THEN Response(401, "Invalid token")
        ELSE Response(0, "ok")

(* Mutant: the job carries an empty object instead of the parsed body *)
Job_DropsPayload(payload) ==
    [source |-> "nextcloud", payload |-> EmptyObject, status |-> "pending"]

(* gateway main.py:92-96 *)
Job(payload) == [source |-> "nextcloud", payload |-> payload, status |-> "pending"]

(* An entry of the Redis list: the JSON text pushed (valid = it parses as  *)
(* JSON, job = what json.loads gives) and a ghost delivery tag.            *)
Entry(tag, job) == [tag |-> tag, valid |-> TRUE, job |-> job]

(* Mutant: RPUSH, insert at the tail of the list *)
LPush_AtTail(q, e) == q \o <<e>>

(* redis LPUSH: insert at the head of the list *)
LPush(q, e) == <<e>> \o q

(* Mutant: a failed LPUSH is swallowed and the request still answered 202 *)
Enqueue_SwallowPushError(r, lpushOk) ==
    LET parsed == ParseJson(r.body)
    IN  CASE parsed.kind = "JSONDecodeError" ->
               [resp |-> Response(400, "Invalid JSON"), push |-> FALSE]
          [] parsed.kind \in {"UnicodeDecodeError", "other"} ->
               [resp |-> Response(500, "Exception"), push |-> FALSE]
          [] parsed.kind = "object" /\ ~redis_client ->
               [resp |-> Response(500, "Internal processing error"), push |-> FALSE]
          [] OTHER ->
               [resp |-> Response(202, "queued"), push |-> lpushOk]

(* Mutant: without a Redis client the request is answered as queued *)
Enqueue_NoClientAccepted(r, lpushOk) ==
    LET parsed == ParseJson(r.body)
    IN  CASE parsed.kind = "JSONDecodeError" ->
               [resp |-> Response(400, "Invalid JSON"), push |-> FALSE]
          [] parsed.kind \in {"UnicodeDecodeError", "other"} ->
               [resp |-> Response(500, "Exception"), push |-> FALSE]
          [] parsed.kind = "object" /\ ~redis_client ->
               [resp |-> Response(202, "queued"), push |-> FALSE]
          [] parsed.kind = "object" /\ redis_client /\ ~lpushOk ->
               [resp |-> Response(500, "ConnectionError"), push |-> FALSE]
          [] OTHER ->
               [resp |-> Response(202, "queued"), push |-> TRUE]

(* gateway main.py:86-109: the response after authentication, and whether  *)
(* the job was pushed.  lpushOk = the LPUSH call returned.                 *)
Enqueue(r, lpushOk) ==
    LET parsed == ParseJson(r.body)
    IN  CASE parsed.kind = "JSONDecodeError" ->
               [resp |-> Response(400, "Invalid JSON"), push |-> FALSE]
          [] parsed.kind = "UnicodeDecodeError" ->
               [resp |-> Response(500, "UnicodeDecodeError"), push |-> FALSE]
          [] parsed.kind = "other" ->          \* payload.get: AttributeError
               [resp |-> Response(500, "AttributeError"), push |-> FALSE]
          [] parsed.kind = "object" /\ ~redis_client ->
               [resp |-> Response(500, "Internal processing error"), push |-> FALSE]
          [] parsed.kind = "object" /\ redis_client /\ ~lpushOk ->
               [resp |-> Response(500, "ConnectionError"), push |-> FALSE]
          [] OTHER ->
               [resp |-> Response(202, "queued"), push |-> TRUE]

(* gateway main.py:52-109, one request *)
handle_webhook(r, lpushOk) ==
    /\ nPushed < MaxJobs
    /\ req' = r
    /\ LET auth == Authenticate(r)
           out  == Enqueue(r, lpushOk)
           called == auth.status = 0 /\ ParseJson(r.body).kind = "object" /\ redis_client
       IN  /\ redisUp' = (called => lpushOk)
           /\ IF auth.status # 0
              THEN /\ resp' = auth
                   /\ pushedBy' = 0
                   /\ UNCHANGED <<queue, nPushed>>
              ELSE /\ resp' = out.resp
                   /\ IF out.push
                      THEN /\ nPushed' = nPushed + 1
                           /\ queue' = LPush(queue, Entry(nPushed + 1, Job(ParseJson(r.body).value)))
                           /\ pushedBy' = nPushed + 1
                      ELSE /\ pushedBy' = 0
                           /\ UNCHANGED <<queue, nPushed>>
    /\ UNCHANGED <<WEBHOOK_SECRET, redis_client, pc, cur, tmpFiles, db, index, hist>>

(* Requests: each header is absent (None), empty, or one of a few values.  *)
Secrets == {"change_me", "s3cret"}

Request(sha, sig, tok, body) ==
    [xSigSha256 |-> sha, xSig |-> sig, token |-> tok, body |-> body]

NoRequest == Request(None, None, None, B_EmptyObject)

(* The senders sign with the default secret; WEBHOOK_SECRET is that secret *)
(* or another one, so the same header is a valid digest in one             *)
(* configuration and a digest under the wrong key in the other.            *)
SenderKey == "change_me"

(* X-Signature-SHA256: absent, empty, non-ASCII, the digest of this body,  *)
(* the digest of another body.                                             *)
ShaValues(body) ==
    {None, "", "\\xe9", HexDigest(SenderKey, body), HexDigest(SenderKey, B_FlatCreated)}

(* X-Signature *)
SigValues(body) == {None, HexDigest(SenderKey, body)}

(* X-Nextcloud-Token *)
TokenValues == {None, "", PLACEHOLDER_TOKEN, SenderKey}

RequestsFor(bodies) ==
    UNION { { Request(sha, sig, tok, body) :
                sha \in ShaValues(body), sig \in SigValues(body), tok \in TokenValues }
            : body \in bodies }

GatewayBodies ==
    {B_FlatCreated, B_FlatCreatedSp, B_NodeRenamed, B_Array, B_NotJson, B_BadUtf8}

-----------------------------------------------------------------------------
(* str operations on token sequences *)

(* str(x) for the values a file id takes *)
Str(x) == CASE x = None -> "None" [] x = Int7 -> "7" [] OTHER -> x

(* p.strip("/"): drop the leading and the trailing separators *)
Strip(p) ==
    LET keep == {i \in 1..Len(p) : p[i] # "/"}
        first == CHOOSE i \in keep : \A j \in keep : i <= j
        last  == CHOOSE i \in keep : \A j \in keep : j <= i
    IN  IF keep = {} THEN <<>> ELSE SubSeq(p, first, last)

(* p.split("/"): the segments between the separators, empty ones included *)
Split(p) ==
    LET seps == {i \in 1..Len(p) : p[i] = "/"}
        n    == Cardinality(seps)
        \* position of the k-th separator; 0 and Len(p)+1 bracket the string
        at(k) == IF k = 0 THEN 0
                 ELSE IF k = n + 1 THEN Len(p) + 1
                 ELSE CHOOSE i \in seps : Cardinality({j \in seps : j < i}) = k - 1
    IN  [k \in 1..(n + 1) |-> SubSeq(p, at(k - 1) + 1, at(k) - 1)]

(* "/".join(parts) *)
Join(parts) ==
    LET J[k \in 0..Len(parts)] ==
            IF k = 0 THEN <<>>
            ELSE IF k = 1 THEN parts[1]
            ELSE J[k - 1] \o <<"/">> \o parts[k]
    IN  J[Len(parts)]

(* sub in s *)
Contains(s, sub) ==
    \E i \in 0..(Len(s) - Len(sub)) : SubSeq(s, i + 1, i + Len(sub)) = sub

-----------------------------------------------------------------------------
(* indexer-worker: process_job's reading of the payload *)

(* Mutant: the class name is matched on the event word alone *)
ClassEvent_AnyNoun(event_class) ==
    IF Contains(event_class, <<"CreatedEvent">>) THEN "file.created"
    ELSE IF Contains(event_class, <<"WrittenEvent">>) THEN "file.updated"
    ELSE IF Contains(event_class, <<"DeletedEvent">>) THEN "file.deleted"
    ELSE "unknown"

(* indexer main.py:32-39 *)
ClassEvent(event_class) ==
    IF Contains(event_class, <<"Node", "CreatedEvent">>) THEN "file.created"
    ELSE IF Contains(event_class, <<"Node", "WrittenEvent">>) THEN "file.updated"
    ELSE IF Contains(event_class, <<"Node", "DeletedEvent">>) THEN "file.deleted"
    ELSE "unknown"

(* Mutant: the segments are cut from the raw path, slashes not stripped *)
ResolvePath_NoStrip(raw_path) ==
    LET parts == Split(raw_path)
    IN  IF Len(parts) > 2 /\ parts[1] = <<"files">>
        THEN Join(SubSeq(parts, 3, Len(parts)))
        ELSE raw_path

(* indexer main.py:57-65 *)
ResolvePath(raw_path) ==
    LET parts == Split(Strip(raw_path))
    IN  IF Len(parts) > 2 /\ parts[1] = <<"files">>
        THEN Join(SubSeq(parts, 3, Len(parts)))
        ELSE raw_path

(* dict.get(key, "") on a path *)
GetPath(p) == IF p = NonePath THEN <<>> ELSE p

(* indexer main.py:23-74 *)
Normalize(job) ==
    LET payload == job.payload
    IN  IF payload.eventIsDict
        THEN [event     |-> ClassEvent(payload.class),
              file_id   |-> payload.node_id,
              file_path |-> ResolvePath(GetPath(payload.node_path)),
              etag      |-> payload.node_etag]
        ELSE [event     |-> payload.event,
              file_id   |-> payload.file_id,
              file_path |-> GetPath(payload.path),
              etag      |-> payload.etag]

(* Payloads for process_job alone: raw paths of up to MaxSegs segments,    *)
(* each empty, "files" or another name, and class names of up to           *)
(* MaxClassLen words.                                                      *)
MaxSegs == 5
MaxClassLen == 4

Segs == {<<>>, <<"files">>, <<"a">>}
SegLists == UNION {[1..n -> Segs] : n \in 1..MaxSegs}

(* The path whose segments are segs *)
PathOf(segs) == Join(segs)

Paths == {PathOf(segs) : segs \in SegLists}

ClassWords == {"Node", "User", "CreatedEvent", "WrittenEvent", "DeletedEvent"}
ClassNames == UNION {[1..n -> ClassWords] : n \in 1..MaxClassLen}

FileIds == {None, Int7}

JobInputs ==
    {Structured(c, Int7, FilesAliceDocsA, None) : c \in ClassNames}
        \cup {Structured(<<"Node", "CreatedEvent">>, id, p, None) : id \in FileIds, p \in Paths}
        \cup {Flat("file.created", id, p, "e1") : id \in {None, "f1"}, p \in Paths}

(* Paths of acl.changed notifications: without and with the owner token, *)
(* with the group token in either case, with a capitalised owner token.  *)
AclPaths ==
    {DocsA,
     <<"home", "/", "hartkens", "/", "a.pdf">>,
     <<"Shared", "/", "Marketing", "/", "b.pdf">>,
     <<"hartkens", "/", "marketing">>,
     <<"Hartkens", "/", "x">>}

AclInputs == {Flat("acl.changed", "f1", p, None) : p \in AclPaths}

(* Normalize, tabulated once over the jobs the bodies and payloads above give *)
NormalizedJobs ==
    [j \in {Job(ParseJson(b).value) : b \in RawBodies}
              \cup {Job(pl) : pl \in JobInputs \cup AclInputs}
        |-> Normalize(j)]

(* indexer main.py:78 *)
IsIndexEvent(event) == event \in {"file.created", "file.updated"}

-----------------------------------------------------------------------------
(* Stores *)

NoAcl == [owner |-> None, allowed_users |-> {}, allowed_groups |-> {}]

(* Mutant: INSERT ... ON CONFLICT (file_id) DO NOTHING *)
upsert_file_KeepsFirst(rows, file_id, path, etag) ==
    IF \E r \in rows : r.file_id = file_id THEN rows
    ELSE rows \cup {[file_id |-> file_id, path |-> path, etag |-> etag]}

(* db.py:31-36: INSERT ... ON CONFLICT (file_id) DO UPDATE *)
upsert_file(rows, file_id, path, etag) ==
    {r \in rows : r.file_id # file_id}
        \cup {[file_id |-> file_id, path |-> path, etag |-> etag]}

(* db.py:20-43: one call of upsert_file.  failAt is the statement that     *)
(* raises ("none": the call returns).  The statements run in one           *)
(* transaction: rows written before the failure are pending until the      *)
(* commit, and the rollback at 39 discards them.                           *)
FailPoints == {"connect", "create", "insert", "commit"}

(* Mutant: the insert is applied at once, a failing commit does not undo it *)
Transaction_Autocommit(rows, file_id, path, etag, failAt) ==
    [rows   |-> IF failAt \in {"connect", "create", "insert"} THEN rows
                ELSE upsert_file(rows, file_id, path, etag),
     raised |-> failAt # "none"]

Transaction(rows, file_id, path, etag, failAt) ==
    LET pending == IF failAt \in {"connect", "create", "insert"} THEN rows
                   ELSE upsert_file(rows, file_id, path, etag)
    IN  [rows   |-> IF failAt = "none" THEN pending ELSE rows,
         raised |-> failAt # "none"]

(* Mutant: a point id derives from the meta passed in alone, so indexing   *)
(* a file again replaces its points, payload included                     *)
WriteChunks_ByMeta(points, source, meta) ==
    {c \in points : ~(c.file_id = meta.file_id /\ c.path = meta.path /\ c.etag = meta.etag)}
        \cup {[file_id |-> meta.file_id, path |-> meta.path, etag |-> meta.etag,
               file_path |-> source, acl |-> NoAcl]}

(* pipeline.py:40-48: the converter is given the temporary file as source  *)
(* and meta; it records the name of the source in the document's meta      *)
(* (file_path) next to the meta passed in, and the writer upserts the      *)
(* chunks.  A point id derives from the chunk's content and meta, so a     *)
(* chunk written again with the same meta replaces the stored point,       *)
(* payload included, and a chunk whose meta differs is a new point.        *)
WriteChunks(points, source, meta) ==
    {c \in points : ~(c.file_id = meta.file_id /\ c.path = meta.path
                        /\ c.etag = meta.etag /\ c.file_path = source)}
        \cup {[file_id |-> meta.file_id, path |-> meta.path, etag |-> meta.etag,
               file_path |-> source, acl |-> NoAcl]}

(* acl_client.py:10-39 *)
Lower(tok) ==
    IF tok = "Marketing" THEN "marketing"
    ELSE IF tok = "Hartkens" THEN "hartkens"
    ELSE tok

(* Mutant: no default owner *)
fetch_acl_NoFallback(file_path) ==
    [owner          |-> IF \E i \in 1..Len(file_path) : file_path[i] = "hartkens"
                        THEN "hartkens" ELSE None,
     allowed_users  |-> {},
     allowed_groups |-> IF \E i \in 1..Len(file_path) : Lower(file_path[i]) = "marketing"
                        THEN {"marketing"} ELSE {}]

fetch_acl(file_path) ==
    [owner          |-> IF \E i \in 1..Len(file_path) : file_path[i] = "hartkens"
                        THEN "hartkens" ELSE "admin",
     allowed_users  |-> {},
     allowed_groups |-> IF \E i \in 1..Len(file_path) : Lower(file_path[i]) = "marketing"
                        THEN {"marketing"} ELSE {}]

(* Mutant: set_payload without the file_id filter *)
update_acl_AllPoints(points, file_id, acl_data) ==
    {[c EXCEPT !.acl = acl_data] : c \in points}

(* Mutant: a point that already carries the descriptor loses it *)
update_acl_Toggle(points, file_id, acl_data) ==
    {IF c.file_id = Str(file_id)
     THEN [c EXCEPT !.acl = IF c.acl = acl_data THEN NoAcl ELSE acl_data]
     ELSE c : c \in points}

(* qdrant_updater.py:19-45: set_payload on the points whose file_id matches *)
update_acl(points, file_id, acl_data) ==
    {IF c.file_id = Str(file_id) THEN [c EXCEPT !.acl = acl_data] ELSE c : c \in points}

-----------------------------------------------------------------------------
(* indexer-worker: main loop and process_job, one action per blocking call *)

Indexers == {"ix1"}

NoJob == [tag |-> 0, event |-> None, file_id |-> None, file_path |-> <<>>, etag |-> None]

(* Mutant: the entry is read and left on the list *)
BRPop_Peek(q) == q

(* redis BRPOP: take the entry at the tail of the list *)
Tail1(q) == q[Len(q)]
BRPop(q) == SubSeq(q, 1, Len(q) - 1)

Note(tag, role, what) == {<<tag, role, what>>}

(* indexer main.py:129-133 and 22-78: pop an entry, parse it, read the     *)
(* payload and log the event kind (76); an entry that is not JSON raises   *)
(* and is logged at 137-139.                                               *)
IxPop(w) ==
    /\ pc[w] = "idle"
    /\ queue # <<>>
    /\ LET e == Tail1(queue)
           n == NormalizedJobs[e.job]
       IN  /\ queue' = BRPop(queue)
           /\ IF ~e.valid
              THEN /\ hist' = hist \cup Note(e.tag, "indexer", "popped")
                                   \cup Note(e.tag, "indexer", "failed")
                   /\ UNCHANGED <<pc, cur>>
              ELSE IF IsIndexEvent(n.event)
              THEN /\ pc' = [pc EXCEPT ![w] = "download"]
                   /\ cur' = [cur EXCEPT ![w] = [tag |-> e.tag, event |-> n.event,
                                                 file_id |-> n.file_id,
                                                 file_path |-> n.file_path,
                                                 etag |-> n.etag]]
                   /\ hist' = hist \cup Note(e.tag, "indexer", "popped")
                                   \cup Note(e.tag, "event", n.event)
              ELSE /\ hist' = hist \cup Note(e.tag, "indexer", "popped")
                                   \cup Note(e.tag, "event", n.event)
                                   \cup Note(e.tag, "indexer", "noop")
                   /\ UNCHANGED <<pc, cur>>
    /\ UNCHANGED <<WEBHOOK_SECRET, redis_client, nPushed, req, resp, pushedBy,
                   redisUp, tmpFiles, db, index>>

(* indexer main.py:84-86: the name NamedTemporaryFile gives the file of    *)
(* a job: a fresh random name for every call                               *)
tmp_path(tag) == tag

(* Mutant: the failed job is run again in-process, from the download *)
Raise_RetryInProcess(w) ==
    /\ pc' = [pc EXCEPT ![w] = "download"]
    /\ cur' = cur
    /\ hist' = hist \cup Note(cur[w].tag, "indexer", "failed")

(* process_job raises: logged at 104, re-raised, logged at 138; the loop   *)
(* goes back to BRPOP.                                                     *)
Raise(w) ==
    /\ pc' = [pc EXCEPT ![w] = "idle"]
    /\ cur' = [cur EXCEPT ![w] = NoJob]
    /\ hist' = hist \cup Note(cur[w].tag, "indexer", "failed")

(* indexer main.py:81-86: download the file, write it to a temporary file *)
IxDownload(w, ok) ==
    /\ pc[w] = "download"
    /\ IF ok
       THEN /\ pc' = [pc EXCEPT ![w] = "pipeline"]
            /\ tmpFiles' = tmpFiles \cup {cur[w].tag}
            /\ hist' = hist \cup Note(cur[w].tag, "indexer", "fetch")
            /\ UNCHANGED cur
       ELSE /\ Raise(w)
            /\ UNCHANGED tmpFiles
    /\ UNCHANGED <<WEBHOOK_SECRET, redis_client, queue, nPushed, req, resp, pushedBy,
                   redisUp, db, index>>

(* The position of a write to the collection in the order in which Qdrant *)
(* applies the writes: one more than the number of writes applied so far  *)
WriteSeq == ToString(Cardinality({n \in hist : n[2] = "write"}) + 1)

(* Mutant: a failure of the pipeline is swallowed and the row is upserted *)
IxPipeline_IgnoresFailure(w, ok) ==
    /\ pc[w] = "pipeline"
    /\ pc' = [pc EXCEPT ![w] = "upsert"]
    /\ IF ok
       THEN /\ index' = WriteChunks(index, tmp_path(cur[w].tag),
                                     [file_id |-> Str(cur[w].file_id),
                                      path |-> cur[w].file_path,
                                      etag |-> cur[w].etag])
            /\ hist' = hist \cup Note(cur[w].tag, "indexer", "pipeline")
                            \cup Note(cur[w].tag, "write", WriteSeq)
       ELSE UNCHANGED <<index, hist>>
    /\ UNCHANGED <<WEBHOOK_SECRET, redis_client, queue, nPushed, req, resp, pushedBy,
                   redisUp, tmpFiles, db, cur>>

(* indexer main.py:89-94 *)
IxPipeline(w, ok) ==
    /\ pc[w] = "pipeline"
    /\ IF ok
       THEN /\ pc' = [pc EXCEPT ![w] = "upsert"]
            /\ index' = WriteChunks(index, tmp_path(cur[w].tag),
                                     [file_id |-> Str(cur[w].file_id),
                                      path |-> cur[w].file_path,
                                      etag |-> cur[w].etag])
            /\ hist' = hist \cup Note(cur[w].tag, "indexer", "pipeline")
                            \cup Note(cur[w].tag, "write", WriteSeq)
            /\ UNCHANGED cur
       ELSE /\ Raise(w)
            /\ UNCHANGED index
    /\ UNCHANGED <<WEBHOOK_SECRET, redis_client, queue, nPushed, req, resp, pushedBy,
                   redisUp, tmpFiles, db>>

(* indexer main.py:97-101: upsert the row, remove the temporary file *)
IxUpsert(w, ok) ==
    /\ pc[w] = "upsert"
    /\ \E failAt \in IF ok THEN {"none"} ELSE FailPoints :
         LET t == Transaction(db, Str(cur[w].file_id), cur[w].file_path, cur[w].etag, failAt)
         IN  /\ db' = t.rows
             /\ IF ~t.raised
                THEN /\ tmpFiles' = tmpFiles \ {cur[w].tag}
                     /\ pc' = [pc EXCEPT ![w] = "idle"]
                     /\ cur' = [cur EXCEPT ![w] = NoJob]
                     /\ hist' = hist \cup Note(cur[w].tag, "indexer", "upsert")
                                     \cup Note(cur[w].tag, "indexer", "done")
                ELSE /\ Raise(w)
                     /\ UNCHANGED tmpFiles
    /\ UNCHANGED <<WEBHOOK_SECRET, redis_client, queue, nPushed, req, resp, pushedBy,
                   redisUp, index>>

(* The worker process dies in the middle of a job and is started again:    *)
(* main() begins anew at 111-126 with nothing in hand.                     *)
IxCrash(w) ==
    /\ pc[w] # "idle"
    /\ pc' = [pc EXCEPT ![w] = "idle"]
    /\ cur' = [cur EXCEPT ![w] = NoJob]
    /\ hist' = hist \cup Note(cur[w].tag, "indexer", "crashed")
    /\ UNCHANGED <<WEBHOOK_SECRET, redis_client, queue, nPushed, req, resp, pushedBy,
                   redisUp, tmpFiles, db, index>>

-----------------------------------------------------------------------------
(* acl-worker *)

(* acl main.py:30-33: what the ACL worker reads from an entry.  The event  *)
(* of a structured payload is a dict; path has no default.                 *)
AclJob(job) ==
    LET payload == job.payload
    IN  [event     |-> IF payload.eventIsDict THEN "<dict>" ELSE payload.event,
         file_id   |-> payload.file_id,
         file_path |-> payload.path]

(* acl main.py:29-41; an exception of fetch_acl or update_acl is caught    *)
(* and logged at 40-41.  The result is the collection afterwards.          *)
process_acl_job(points, job, ok) ==
    LET event     == AclJob(job).event
        file_id   == AclJob(job).file_id
        file_path == AclJob(job).file_path
    IN  IF event = "acl.changed" \/ event = "file.created"
        THEN IF file_path = NonePath \/ ~ok THEN points
             ELSE update_acl(points, file_id, fetch_acl(file_path))
        ELSE points

(* acl main.py:66-113: pop an entry; act on acl.changed, drop the rest.    *)
(* The note "raised" is the log line of 111-113, written when an exception *)
(* reaches the loop; "failed" is any error logged for the entry.           *)
AclPop(ok) ==
    /\ queue # <<>>
    /\ LET e == Tail1(queue)
       IN  /\ queue' = BRPop(queue)
           /\ IF ~e.valid
              THEN /\ hist' = hist \cup Note(e.tag, "acl", "popped")
                                   \cup Note(e.tag, "acl", "failed")
                                   \cup Note(e.tag, "acl", "raised")
                   /\ UNCHANGED index
              ELSE IF e.job.payload.event = "acl.changed"
              THEN /\ index' = process_acl_job(index, e.job, ok)
                   /\ hist' = hist \cup Note(e.tag, "acl", "popped")
                                   \cup Note(e.tag, "acl", IF ok /\ e.job.payload.path # NonePath
                                                           THEN "acl" ELSE "failed")
              ELSE /\ hist' = hist \cup Note(e.tag, "acl", "popped")
                                   \cup Note(e.tag, "acl", "dropped")
                   /\ UNCHANGED index
    /\ UNCHANGED <<WEBHOOK_SECRET, redis_client, nPushed, req, resp, pushedBy,
                   redisUp, pc, cur, tmpFiles, db>>

(* acl main.py:23-27 and 43-47: the scheduler thread runs reconcile_all    *)
(* every ten minutes; reconcile_all logs that it starts and returns.       *)
reconcile_all ==
    /\ hist' = hist \cup Note(0, "acl", "sweep")
    /\ UNCHANGED <<WEBHOOK_SECRET, redis_client, queue, nPushed, req, resp, pushedBy,
                   redisUp, pc, cur, tmpFiles, db, index>>

-----------------------------------------------------------------------------
(* Specifications *)

(* A string that is not JSON, left on the list by another Redis client *)
Garbage == [tag |-> 0, valid |-> FALSE, job |-> Job(EmptyObject)]

WorkerInit ==
    /\ pc = [w \in Indexers |-> "idle"]
    /\ cur = [w \in Indexers |-> NoJob]
    /\ tmpFiles = {}
    /\ db = {}
    /\ index = {}
    /\ hist = {}

GatewayInit ==
    /\ WEBHOOK_SECRET \in Secrets
    /\ redis_client \in BOOLEAN
    /\ queue = <<>>
    /\ nPushed = 0
    /\ req = NoRequest
    /\ resp = Response(0, "none")
    /\ pushedBy = 0
    /\ redisUp = TRUE
    /\ WorkerInit

Webhook(requests) ==
    \E r \in requests, lpushOk \in BOOLEAN : handle_webhook(r, lpushOk)

(* The gateway alone, under every combination of credentials *)
NextGateway == Webhook(RequestsFor(GatewayBodies))

SpecGateway == GatewayInit /\ [][NextGateway]_vars

(* The whole system: signed notifications, one unauthenticated *)
SystemBodies == {B_FlatCreated, B_FlatAcl, B_NodeCreated, B_NodeRenamed}

SystemRequests ==
    {Request(HexDigest(SenderKey, b), None, None, b) : b \in SystemBodies}
        \cup {Request(None, None, None, B_FlatCreated)}

Init ==
    /\ WEBHOOK_SECRET = SenderKey
    /\ redis_client = TRUE
    /\ queue \in {<<>>, <<Garbage>>}
    /\ nPushed = 0
    /\ req = NoRequest
    /\ resp = Response(0, "none")
    /\ pushedBy = 0
    /\ redisUp = TRUE
    /\ WorkerInit

Next ==
    \/ Webhook(SystemRequests)
    \/ \E w \in Indexers : IxPop(w)
    \/ \E w \in Indexers, ok \in BOOLEAN : IxDownload(w, ok)
    \/ \E w \in Indexers, ok \in BOOLEAN : IxPipeline(w, ok)
    \/ \E w \in Indexers, ok \in BOOLEAN : IxUpsert(w, ok)
    \/ \E w \in Indexers : IxCrash(w)
    \/ \E ok \in BOOLEAN : AclPop(ok)

Spec == Init /\ [][Next]_vars


(* process_job alone: the list holds one entry, pushed by the gateway for  *)
(* one of the payloads of JobInputs, and one indexer loop runs.            *)
InitIndexer ==
    /\ WEBHOOK_SECRET = SenderKey
    /\ redis_client = TRUE
    /\ \E pl \in JobInputs : queue = <<Entry(1, Job(pl))>>
    /\ nPushed = 1
    /\ req = NoRequest
    /\ resp = Response(202, "queued")
    /\ pushedBy = 1
    /\ redisUp = TRUE
    /\ WorkerInit

NextIndexer ==
    \/ \E w \in Indexers : IxPop(w)
    \/ \E w \in Indexers, ok \in BOOLEAN : IxDownload(w, ok)
    \/ \E w \in Indexers, ok \in BOOLEAN : IxPipeline(w, ok)
    \/ \E w \in Indexers, ok \in BOOLEAN : IxUpsert(w, ok)

SpecIndexer == InitIndexer /\ [][NextIndexer]_vars

(* The two consumers and the stores: the list holds up to MaxReplay        *)
(* entries the gateway pushed while no consumer ran, notifications about   *)
(* two files, possibly the same one more than once.                        *)
MaxReplay == 3

ReplayBodies == {B_FlatCreated, B_FlatUpdated, B_FlatDeleted, B_FlatAcl, B_NodeCreated}

(* The list after the bodies of bs were pushed in this order *)
Pushed(bs) ==
    [i \in 1..Len(bs) |->
        Entry(Len(bs) - i + 1, Job(ParseJson(bs[Len(bs) - i + 1]).value))]

InitStores ==
    /\ WEBHOOK_SECRET = SenderKey
    /\ redis_client = TRUE
    /\ \E n \in 1..MaxReplay : \E bs \in [1..n -> ReplayBodies] :
          /\ queue = Pushed(bs)
          /\ nPushed = n
          /\ pushedBy = n
          /\ req = Request(HexDigest(SenderKey, bs[n]), None, None, bs[n])
    /\ resp = Response(202, "queued")
    /\ redisUp = TRUE
    /\ WorkerInit

NextStores ==
    \/ \E w \in Indexers : IxPop(w)
    \/ \E w \in Indexers, ok \in BOOLEAN : IxDownload(w, ok)
    \/ \E w \in Indexers, ok \in BOOLEAN : IxPipeline(w, ok)
    \/ \E w \in Indexers, ok \in BOOLEAN : IxUpsert(w, ok)
    \/ \E ok \in BOOLEAN : AclPop(ok)
    \/ reconcile_all

SpecStores == InitStores /\ [][NextStores]_vars

(* Access propagation over paths: the list holds the notification that   *)
(* f1 was created and up to MaxAclJobs acl.changed notifications for f1, *)
(* each with a path of AclPaths, pushed in this order.                   *)
MaxAclJobs == 2

AclReplay(ps) ==
    [i \in 1..(Len(ps) + 1) |->
        IF i = Len(ps) + 1
        THEN Entry(1, Job(ParseJson(B_FlatCreated).value))
        ELSE Entry(Len(ps) - i + 2, Job(Flat("acl.changed", "f1", ps[Len(ps) - i + 1], None)))]

InitAcl ==
    /\ WEBHOOK_SECRET = SenderKey
    /\ redis_client = TRUE
    /\ \E n \in 1..MaxAclJobs : \E ps \in [1..n -> AclPaths] :
          /\ queue = AclReplay(ps)
          /\ nPushed = n + 1
          /\ pushedBy = n + 1
    /\ req = NoRequest
    /\ resp = Response(202, "queued")
    /\ redisUp = TRUE
    /\ WorkerInit

SpecAcl == InitAcl /\ [][NextStores]_vars

(* The deployed system when no downstream call fails: the gateway, one    *)
(* indexer loop and the ACL worker loop, both of which keep running.       *)
IxStepOk(w) ==
    \/ IxPop(w)
    \/ IxDownload(w, TRUE)
    \/ IxPipeline(w, TRUE)
    \/ IxUpsert(w, TRUE)

NextEndToEnd ==
    \/ Webhook(SystemRequests)
    \/ \E w \in Indexers : IxStepOk(w)
    \/ AclPop(TRUE)

SpecEndToEnd ==
    /\ Init /\ [][NextEndToEnd]_vars
    /\ \A w \in Indexers : WF_vars(IxStepOk(w))
    /\ WF_vars(AclPop(TRUE))

(* The Content Consumer alone: the gateway and one indexer loop, whose     *)
(* process keeps running, so a call that can return or raise does.         *)
NextContent ==
    \/ Webhook(SystemRequests)
    \/ \E w \in Indexers : IxPop(w)
    \/ \E w \in Indexers, ok \in BOOLEAN : IxDownload(w, ok)
    \/ \E w \in Indexers, ok \in BOOLEAN : IxPipeline(w, ok)
    \/ \E w \in Indexers, ok \in BOOLEAN : IxUpsert(w, ok)

IxStep(w) ==
    \/ IxPop(w)
    \/ \E ok \in BOOLEAN : IxDownload(w, ok)
    \/ \E ok \in BOOLEAN : IxPipeline(w, ok)
    \/ \E ok \in BOOLEAN : IxUpsert(w, ok)

SpecContent ==
    Init /\ [][NextContent]_vars /\ \A w \in Indexers : WF_vars(IxStep(w))

(* Two indexer-worker processes and the ACL worker on the same list, no  *)
(* downstream call failing: the list holds up to MaxRace notifications   *)
(* about f1 pushed while no consumer ran.                                *)
MaxRace == 3

TwoIndexers == {"ix1", "ix2"}

RaceBodies == {B_FlatCreated, B_FlatUpdated, B_FlatAcl}

InitTwoIndexers ==
    /\ WEBHOOK_SECRET = SenderKey
    /\ redis_client = TRUE
    /\ \E n \in 1..MaxRace : \E bs \in [1..n -> RaceBodies] :
          /\ queue = Pushed(bs)
          /\ nPushed = n
          /\ pushedBy = n
          /\ req = Request(HexDigest(SenderKey, bs[n]), None, None, bs[n])
    /\ resp = Response(202, "queued")
    /\ redisUp = TRUE
    /\ pc = [w \in TwoIndexers |-> "idle"]
    /\ cur = [w \in TwoIndexers |-> NoJob]
    /\ tmpFiles = {}
    /\ db = {}
    /\ index = {}
    /\ hist = {}

NextTwoIndexers ==
    \/ \E w \in TwoIndexers : IxStepOk(w)
    \/ AclPop(TRUE)

SpecTwoIndexers == InitTwoIndexers /\ [][NextTwoIndexers]_vars

-----------------------------------------------------------------------------
(* Properties *)

Tags == 0..MaxJobs
QueueTags == {queue[i].tag : i \in 1..Len(queue)}
InHand == {cur[w].tag : w \in {x \in Indexers : pc[x] # "idle"}}
Did(tag, role, what) == <<tag, role, what>> \in hist
Completed(tag) ==
    Did(tag, "indexer", "done") \/ Did(tag, "indexer", "failed") \/ Did(tag, "indexer", "noop")

NoSignature(r) == r.xSigSha256 = None /\ r.xSig = None
Unqueued == queue' = queue /\ nPushed' = nPushed

(* C1: a request with neither a signature header nor a token header is     *)
(* answered 401 and the list is left as it was.                            *)
C1_MissingAuthRejected ==
    [][ (NoSignature(req') /\ req'.token = None)
          => (resp'.status = 401 /\ Unqueued) ]_vars

C1_Witness ==
    /\ NoSignature(req) /\ req.token = None
    /\ resp = Response(401, "Missing auth")
    /\ ParseJson(req.body).kind = "object"
    /\ redis_client

(* C2 as stated: with a (non-empty) X-Signature-SHA256 header, the request *)
(* passes only if the header is the hex HMAC of the body, and any other    *)
(* value is answered 401 with nothing enqueued.                            *)
C2_SignatureOr401 ==
    [][ (Truthy(req'.xSigSha256) /\ req'.xSigSha256 # HexDigest(WEBHOOK_SECRET, req'.body))
          => (resp'.status = 401 /\ Unqueued) ]_vars

(* C3 as stated: with a signature present the token plays no part: an      *)
(* invalid signature is answered 401 whatever the token, a valid one is    *)
(* not answered 401 whatever the token.                                    *)
C3_FirstMatchWins ==
    [][ Truthy(req'.xSigSha256)
          => IF req'.xSigSha256 = HexDigest(WEBHOOK_SECRET, req'.body)
             THEN resp'.status # 401
             ELSE resp'.status = 401 /\ Unqueued ]_vars

(* C4 as stated: with no signature header and a token header, the request  *)
(* passes authentication exactly when the token is the configured secret.  *)
C4_TokenIsConfiguredSecret ==
    [][ (NoSignature(req') /\ Truthy(req'.token))
          => IF req'.token = WEBHOOK_SECRET
             THEN resp'.status # 401
             ELSE resp' = Response(401, "Invalid token") /\ Unqueued ]_vars

(* C5: a request pushes exactly one entry, at the head of the list, if and *)
(* only if it is answered 202 queued; answered 401, 400 or 500 it leaves   *)
(* the list unchanged.                                                     *)
C5_PushIff202 ==
    [][ /\ resp'.status \in {202, 400, 401, 500}
        /\ IF resp' = Response(202, "queued")
           THEN /\ Len(queue') = Len(queue) + 1
                /\ Tail(queue') = queue
                /\ nPushed' = nPushed + 1
           ELSE Unqueued ]_vars

C5_Witness ==
    /\ resp = Response(202, "queued")
    /\ Len(queue) = 2
    /\ queue[1].tag = 2
    /\ queue[1].job.payload = ParseJson(req.body).value


(* C6 as stated: an entry carrying file.created/file.updated is popped by  *)
(* the Content Consumer and one carrying acl.changed by the Access         *)
(* Consumer; no entry is popped by the role that does not act on it.       *)
C6_EachRoleSeesItsEvents ==
    [][ (queue # <<>> /\ queue' = BRPop(queue) /\ Tail1(queue).valid)
          => LET e == Tail1(queue)
             IN  /\ IsIndexEvent(Normalize(e.job).event)
                      => <<e.tag, "indexer", "popped">> \in hist'
                 /\ e.job.payload.event = "acl.changed"
                      => <<e.tag, "acl", "popped">> \in hist' ]_vars

(* C7 as stated: a job whose consumer crashed after popping it is          *)
(* delivered again: it is on the list, in a consumer's hands, or has been  *)
(* processed to completion.                                                *)
C7_CrashedJobRedelivered ==
    \A t \in Tags :
        Did(t, "indexer", "crashed")
            => (t \in QueueTags \/ t \in InHand \/ Completed(t))

(* C8 as stated: a job whose processing failed in the Content Consumer is  *)
(* not discarded: it is back on the list (or taken from it again, or done  *)
(* on redelivery); the program keeps no dead-letter store.                 *)
C8_FailedJobKept ==
    \A t \in 1..MaxJobs :
        Did(t, "indexer", "failed")
            => (t \in QueueTags \/ t \in InHand \/ Did(t, "indexer", "done"))

SomeFailed == \E f \in Tags : Did(f, "indexer", "failed")

(* C9: after a job has raised (an entry that is not JSON included) the     *)
(* loop is back at its pop with nothing in hand, the failed job is neither *)
(* in hand nor on the list again, and every entry on the list is still     *)
(* taken and processed to completion.                                      *)
C9_LoopSurvivesFailure ==
    /\ [](\A t \in Tags :
            Did(t, "indexer", "failed") => (t \notin InHand /\ t \notin QueueTags))
    /\ \A t \in Tags : (SomeFailed /\ t \in QueueTags) ~> Completed(t)

C9_Witness ==
    /\ Did(0, "indexer", "failed")
    /\ Did(1, "indexer", "fetch") /\ Did(1, "indexer", "failed")
    /\ Did(2, "indexer", "done")

(* The event kind the payload normalizes to is Unknown *)
UnknownEvent(job) ==
    Normalize(job).event \notin {"file.created", "file.updated", "file.deleted"}
        /\ job.payload.event # "acl.changed"

UnknownBody(raw) ==
    LET p == ParseJson(raw)
    IN  p.kind = "other" \/ (p.kind = "object" /\ UnknownEvent(Job(p.value)))

(* A consumer that pops an entry of Unknown kind does nothing for it *)
ConsumersIgnoreUnknown ==
    [][ (queue # <<>> /\ queue' = BRPop(queue) /\ Tail1(queue).valid
            /\ UnknownEvent(Tail1(queue).job))
          => UNCHANGED <<pc, cur, tmpFiles, db, index>> ]_vars

(* C10 as stated: an authenticated request whose body is valid JSON of     *)
(* Unknown kind is answered 202 (the queue being available), and the       *)
(* consumers do nothing for its entry.                                     *)
C10_UnknownAcknowledged ==
    /\ [][ (Authenticate(req').status = 0
              /\ ParseJson(req'.body).kind \in {"object", "other"}
              /\ UnknownBody(req'.body)
              /\ resp'.detail \notin {"Internal processing error", "ConnectionError"})
            => resp' = Response(202, "queued") ]_vars
    /\ ConsumersIgnoreUnknown

(* The request passed authentication *)
Authenticated(r) == Authenticate(r).status = 0

(* The Work Queue is available to the request just handled *)
QueueAvailable == redis_client /\ redisUp'

(* C11 as stated: an authenticated request whose body is Unknown or        *)
(* malformed (not JSON, or JSON that is no object) is never answered with  *)
(* an error status while the queue is available.                           *)
C11_AnyBodyAcknowledged ==
    [][ (Authenticated(req') /\ QueueAvailable
            /\ (ParseJson(req'.body).kind # "object" \/ UnknownBody(req'.body)))
          => resp'.status = 202 ]_vars

(* C12 as stated: an authenticated request whose body does not parse as    *)
(* JSON is answered 400 "Invalid JSON" and nothing is enqueued.            *)
C12_UnparseableIs400 ==
    [][ (Authenticated(req')
            /\ ParseJson(req'.body).kind \in {"JSONDecodeError", "UnicodeDecodeError"})
          => (resp' = Response(400, "Invalid JSON") /\ Unqueued) ]_vars

(* C13: an authenticated request with a valid JSON body, handled while     *)
(* there is no Redis client or while the LPUSH fails, is answered 500 and  *)
(* the list is left as it was.                                             *)
C13_QueueDownIs500 ==
    [][ (Authenticated(req') /\ ~QueueAvailable
            /\ ParseJson(req'.body).kind \in {"object", "other"})
          => (resp'.status = 500 /\ Unqueued) ]_vars

C13_Witness ==
    /\ Authenticated(req)
    /\ ParseJson(req.body).kind = "object"
    /\ redis_client /\ ~redisUp
    /\ resp = Response(500, "ConnectionError")
    /\ Len(queue) = 1

(* C14: every entry on the list has source "nextcloud" and status          *)
(* "pending", and the entry a request pushes carries as payload the parsed *)
(* body of that request, the entries below it being left as they were.     *)
C14_EntryShape ==
    /\ [](\A i \in 1..Len(queue) :
            /\ queue[i].valid
            /\ queue[i].job.source = "nextcloud"
            /\ queue[i].job.status = "pending")
    /\ [][ queue' # queue
            => /\ Tail(queue') = queue
               /\ ParseJson(req'.body).kind = "object"
               /\ Head(queue').job.payload = ParseJson(req'.body).value ]_vars

C14_Witness ==
    /\ Len(queue) = 2
    /\ pushedBy = 2
    /\ req.body = B_NodeRenamed
    /\ queue[1].job =
          [source |-> "nextcloud",
           payload |-> Structured(<<"Node", "RenamedEvent">>, Int7, FilesAliceDocsA, None),
           status |-> "pending"]
    /\ queue[2].job.payload.event = "file.created"

(* The step on which an indexer takes a structured-shape entry off the list *)
PopsStructured ==
    /\ queue # <<>> /\ queue' = BRPop(queue)
    /\ Tail1(queue).valid
    /\ Tail1(queue).job.payload.eventIsDict
    /\ <<Tail1(queue).tag, "indexer", "popped">> \in hist' \ hist

(* The event kind process_job logged for the entry just popped *)
LoggedEvent(ev) == <<Tail1(queue).tag, "event", ev>> \in hist'

EventWords == {"CreatedEvent", "WrittenEvent", "DeletedEvent"}
WordsIn(c) == {c[i] : i \in 1..Len(c)} \cap EventWords
HasNodeWord(c, word) == \E i \in 1..(Len(c) - 1) : c[i] = "Node" /\ c[i + 1] = word

(* C15 as stated: a class name that contains CreatedEvent (and neither of  *)
(* the other two words) gives file.created, likewise WrittenEvent gives    *)
(* file.updated and DeletedEvent file.deleted; a name with none of the     *)
(* three gives unknown.                                                    *)
C15_EventWordDecides ==
    [][ PopsStructured
          => LET c == Tail1(queue).job.payload.class
             IN  /\ WordsIn(c) = {"CreatedEvent"} => LoggedEvent("file.created")
                 /\ WordsIn(c) = {"WrittenEvent"} => LoggedEvent("file.updated")
                 /\ WordsIn(c) = {"DeletedEvent"} => LoggedEvent("file.deleted")
                 /\ WordsIn(c) = {} => LoggedEvent("unknown") ]_vars

(* C15 amended: the event kind is file.created when the class name         *)
(* contains NodeCreatedEvent, otherwise file.updated when it contains      *)
(* NodeWrittenEvent, otherwise file.deleted when it contains               *)
(* NodeDeletedEvent, and unknown for every other class name.               *)
C15_NodeEventDecides ==
    [][ PopsStructured
          => LET c == Tail1(queue).job.payload.class
             IN  LoggedEvent(IF HasNodeWord(c, "CreatedEvent") THEN "file.created"
                             ELSE IF HasNodeWord(c, "WrittenEvent") THEN "file.updated"
                             ELSE IF HasNodeWord(c, "DeletedEvent") THEN "file.deleted"
                             ELSE "unknown") ]_vars

C15_Witness ==
    /\ <<1, "event", "file.deleted">> \in hist
    /\ <<1, "indexer", "noop">> \in hist
    /\ queue = <<>>

(* The step on which an indexer takes a structured-shape entry off the    *)
(* list and goes on to download the file                                   *)
ResolvesPath(w) == PopsStructured /\ pc[w] = "idle" /\ pc'[w] = "download"

(* segs is files, an owner, and a relative path that is not empty *)
OwnerForm(segs) ==
    /\ Len(segs) >= 3
    /\ segs[1] = <<"files">>
    /\ segs[2] # <<>>
    /\ PathOf(SubSeq(segs, 3, Len(segs))) # <<>>

(* segs without its leading and trailing empty segments *)
Core(segs) ==
    LET keep == {i \in 1..Len(segs) : segs[i] # <<>>}
    IN  IF keep = {} THEN <<>>
        ELSE SubSeq(segs, CHOOSE i \in keep : \A j \in keep : i <= j,
                          CHOOSE i \in keep : \A j \in keep : j <= i)

(* C16 as stated: the resolved path is the raw path without its first two  *)
(* segments exactly when the raw path is files/{owner}/{relative path},    *)
(* and the raw path itself otherwise.                                      *)
C16_StripsOwnerForm ==
    [][ \A w \in Indexers : ResolvesPath(w) =>
          \A segs \in SegLists :
              Tail1(queue).job.payload.node_path = PathOf(segs)
                  => cur'[w].file_path =
                         IF OwnerForm(segs) THEN PathOf(SubSeq(segs, 3, Len(segs)))
                         ELSE PathOf(segs) ]_vars

(* C16 amended: with the leading and trailing slashes of the raw path set  *)
(* aside, if more than two segments remain and the first is files, the     *)
(* resolved path is the segments after the second joined by slashes (so    *)
(* /files/alice/Docs/a.pdf and files/alice/Docs/a.pdf/ both give           *)
(* Docs/a.pdf, and an empty owner segment counts); otherwise it is the raw *)
(* path unchanged, slashes included.                                       *)
C16_StripsAfterTrim ==
    [][ \A w \in Indexers : ResolvesPath(w) =>
          \A segs \in SegLists :
              Tail1(queue).job.payload.node_path = PathOf(segs)
                  => cur'[w].file_path =
                         IF Len(Core(segs)) > 2 /\ Core(segs)[1] = <<"files">>
                         THEN PathOf(SubSeq(Core(segs), 3, Len(Core(segs))))
                         ELSE PathOf(segs) ]_vars

C16_Witness ==
    /\ pc["ix1"] = "download"
    /\ cur["ix1"].file_id = Int7
    /\ cur["ix1"].file_path = <<"files", "/", "a", "/", "a">>
    /\ queue = <<>>

(* C17 as stated: resolving the path process_job resolved gives that same  *)
(* path again.                                                             *)
C17_ResolveIdempotent ==
    [][ \A w \in Indexers :
          ResolvesPath(w) => ResolvePath(cur'[w].file_path) = cur'[w].file_path ]_vars

(* C18 as stated: a job being fetched, run through the pipeline or         *)
(* upserted has a file id, and no row is keyed by the text of an absent    *)
(* id.                                                                     *)
C18_FileIdPresent ==
    /\ \A w \in Indexers : pc[w] # "idle" => cur[w].file_id # None
    /\ \A r \in db : r.file_id # Str(None)

(* p is files/{owner}/{something} *)
OwnerRelative(p) ==
    /\ Len(p) >= 5
    /\ p[1] = "files" /\ p[2] = "/" /\ p[3] # "/" /\ p[4] = "/" /\ p[5] # "/"

(* C19 as stated: the path of a job being fetched, and the path of a row,  *)
(* is never of the form files/{owner}/...                                  *)
C19_PathIsRelative ==
    /\ \A w \in Indexers : pc[w] # "idle" => ~OwnerRelative(cur[w].file_path)
    /\ \A r \in db : ~OwnerRelative(r.path)

(* The job with this tag raised on this step *)
FailsNow(tag) == <<tag, "indexer", "failed">> \in hist' \ hist

(* C20: a job whose row was upserted had its file fetched and its pipeline *)
(* run before, and the step on which a job raises leaves the rows as they  *)
(* were.                                                                   *)
C20_UpsertAfterFetchAndPipeline ==
    /\ [](\A t \in Tags :
            Did(t, "indexer", "upsert")
                => (Did(t, "indexer", "fetch") /\ Did(t, "indexer", "pipeline")))
    /\ [](\A w \in Indexers :
            pc[w] = "upsert"
                => (Did(cur[w].tag, "indexer", "fetch") /\ Did(cur[w].tag, "indexer", "pipeline")))
    /\ [][ (\E t \in Tags : FailsNow(t)) => db' = db ]_vars

C20_Witness ==
    /\ Did(1, "indexer", "upsert")
    /\ Did(2, "indexer", "fetch") /\ Did(2, "indexer", "failed")
    /\ ~Did(2, "indexer", "upsert")
    /\ \E r \in db : r.file_id = "f1"
    /\ \A r \in db : r.file_id # "7"

(* process_job has returned or raised for the job with this tag *)
Returned(tag) == Did(tag, "indexer", "done") \/ Did(tag, "indexer", "failed")

(* C21 as stated: once process_job has returned or raised for a job, no    *)
(* temporary file created for that job remains.                            *)
C21_TempFileReleased ==
    \A t \in Tags : Returned(t) => t \notin tmpFiles

(* The step on which an indexer takes the entry at the tail and logs this  *)
(* event kind for it                                                       *)
IndexerTakes(ev) ==
    /\ queue # <<>> /\ queue' = BRPop(queue)
    /\ Tail1(queue).valid
    /\ <<Tail1(queue).tag, "indexer", "popped">> \in hist' \ hist
    /\ <<Tail1(queue).tag, "event", ev>> \in hist'

(* C22 as stated: when the indexer has processed a file.deleted job, the   *)
(* index holds no chunk and the metadata store no row of that file id.     *)
C22_DeleteRemoves ==
    [][ IndexerTakes("file.deleted")
          => LET fid == Str(Tail1(queue).job.payload.file_id)
             IN  /\ \A c \in index' : c.file_id # fid
                 /\ \A r \in db' : r.file_id # fid ]_vars

(* The index holds the chunk of the job in w's hands as a first           *)
(* processing of the same file id, path and fingerprint wrote it           *)
IndexedBefore(w) ==
    \E c \in index :
        /\ c.file_id = Str(cur[w].file_id)
        /\ c.path = cur[w].file_path
        /\ c.etag = cur[w].etag
        /\ c.acl = NoAcl

UpsertedBefore(w) ==
    [file_id |-> Str(cur[w].file_id), path |-> cur[w].file_path, etag |-> cur[w].etag] \in db

(* C23 as stated: processing a job whose file id, path and fingerprint     *)
(* were processed before leaves the index and the metadata store as the    *)
(* first processing left them: the pipeline run adds and changes no chunk, *)
(* the upsert adds and changes no row.                                     *)
C23_ReprocessingIsNoOp ==
    [][ \A w \in Indexers :
          /\ (pc[w] = "pipeline" /\ pc'[w] = "upsert" /\ IndexedBefore(w))
                => index' = index
          /\ (pc[w] = "upsert" /\ pc'[w] = "idle" /\ UpsertedBefore(w))
                => db' = db ]_vars

(* The step on which w's upsert_file call returns *)
Upserts(w) ==
    /\ pc[w] = "upsert"
    /\ <<cur[w].tag, "indexer", "upsert">> \in hist' \ hist

(* C24: the metadata store never holds two rows with one file id; a        *)
(* successful upsert leaves for the job's file id the one row with the     *)
(* job's path and fingerprint, whatever row was there, and leaves the rows *)
(* of other file ids as they were; and a job that has reached the upsert   *)
(* can complete it whatever the store holds.                               *)
C24_LastProcessedWins ==
    /\ [](\A r1, r2 \in db : r1.file_id = r2.file_id => r1 = r2)
    /\ [][ \A w \in Indexers : Upserts(w) =>
            LET fid == Str(cur[w].file_id)
            IN  /\ {r \in db' : r.file_id = fid}
                      = {[file_id |-> fid, path |-> cur[w].file_path, etag |-> cur[w].etag]}
                /\ {r \in db' : r.file_id # fid} = {r \in db : r.file_id # fid} ]_vars
    /\ [](\A w \in Indexers : pc[w] = "upsert" => ENABLED IxUpsert(w, TRUE))

C24_Witness ==
    /\ Did(1, "event", "file.updated") /\ Did(1, "indexer", "upsert")
    /\ Did(2, "event", "file.created") /\ Did(2, "indexer", "upsert")
    /\ Did(3, "indexer", "upsert")
    /\ db = {[file_id |-> "f1", path |-> DocsA, etag |-> "e1"],
             [file_id |-> "7", path |-> DocsA, etag |-> None]}

(* The last request was a signed NodeCreatedEvent for                      *)
(* /files/alice/Docs/a.pdf, answered 202, and its entry has this tag       *)
QueuedNodeCreated(t) ==
    /\ pushedBy = t
    /\ req.body = B_NodeCreated
    /\ req.xSigSha256 = HexDigest(WEBHOOK_SECRET, req.body)
    /\ resp = Response(202, "queued")

(* C25 as stated: a signed NodeCreatedEvent for files/{owner}/{rel} is     *)
(* answered 202 when the queue is available, and, no downstream call       *)
(* failing, the indexer eventually fetches and indexes the file and        *)
(* upserts a row whose path is {rel}.                                      *)
C25_EndToEnd ==
    /\ [][ (req'.body = B_NodeCreated
              /\ req'.xSigSha256 = HexDigest(WEBHOOK_SECRET, req'.body)
              /\ QueueAvailable)
            => resp' = Response(202, "queued") ]_vars
    /\ \A t \in 1..MaxJobs :
          QueuedNodeCreated(t)
              ~> (/\ Did(t, "indexer", "fetch") /\ Did(t, "indexer", "pipeline")
                  /\ Did(t, "indexer", "upsert")
                  /\ [file_id |-> "7", path |-> DocsA, etag |-> None] \in db)

(* The step on which the ACL worker takes the entry at the tail and        *)
(* completes the propagation for it                                        *)
AclApplies ==
    /\ queue # <<>> /\ queue' = BRPop(queue)
    /\ <<Tail1(queue).tag, "acl", "acl">> \in hist' \ hist

(* The descriptor of the path of the entry at the tail: acl_client.py:27-39 *)
Fetched == fetch_acl(Tail1(queue).job.payload.path)
Target == Str(Tail1(queue).job.payload.file_id)

AppliedBefore == \A c \in index : c.file_id = Target => c.acl = Fetched

(* C28: a propagation for a file id whose chunks already carry the same    *)
(* descriptor leaves the index as it was, and applying the descriptor once *)
(* more to the index a propagation produced changes nothing.               *)
C28_PropagationIdempotent ==
    [][ AclApplies =>
          /\ AppliedBefore => index' = index
          /\ update_acl(index', Tail1(queue).job.payload.file_id, Fetched) = index' ]_vars

C28_Witness ==
    /\ Did(1, "indexer", "pipeline")
    /\ Did(2, "acl", "acl") /\ Did(3, "acl", "acl")
    /\ queue = <<>>
    /\ \E c \in index : c.file_id = "f1" /\ c.acl = fetch_acl(DocsA)

(* The step on which reconcile_all runs *)
Sweeps == <<0, "acl", "sweep">> \in hist' \ hist

(* C27 as stated: after a reconciliation sweep every chunk of every file   *)
(* id that had a row in the metadata store when the sweep started carries  *)
(* the descriptor fetched for the row's path.                              *)
C27_SweepCoversEveryRow ==
    [][ Sweeps =>
          \A r \in db : \A c \in index' :
              c.file_id = r.file_id => c.acl = fetch_acl(r.path) ]_vars

(* C29 as stated: an error of the propagation of a job is logged and       *)
(* raised out of the job's processing to the loop of the ACL worker.       *)
C29_AclFailureSurfaced ==
    \A t \in Tags : Did(t, "acl", "failed") => Did(t, "acl", "raised")

(* C30: the step on which upsert_file raises, whichever statement failed,  *)
(* leaves the rows as they were, and the error reaches process_job, which  *)
(* gives the job up.                                                       *)
C30_UpsertAtomic ==
    [][ \A w \in Indexers :
          (pc[w] = "upsert" /\ pc'[w] # "upsert"
              /\ <<cur[w].tag, "indexer", "upsert">> \notin hist')
              => (db' = db /\ FailsNow(cur[w].tag) /\ pc'[w] = "idle") ]_vars

C30_Witness ==
    /\ Did(1, "event", "file.created") /\ Did(1, "indexer", "upsert")
    /\ Did(2, "event", "file.updated") /\ Did(2, "indexer", "pipeline")
    /\ Did(2, "indexer", "failed")
    /\ db = {[file_id |-> "f1", path |-> DocsA, etag |-> "e1"]}

(* C31: the rows of the metadata store change only on a step on which an  *)
(* indexer's upsert_file returns (no gateway or ACL worker step changes    *)
(* them), and a chunk of the index is changed or removed only on a step on *)
(* which the ACL worker completes a propagation: an indexer step, indexing *)
(* a file again included, leaves every chunk already there as it was.      *)
C31_WriteOwnership ==
    [][ /\ db' # db => \E w \in Indexers : Upserts(w)
        /\ (\E c \in index : c \notin index') => AclApplies ]_vars

C31_Witness ==
    /\ Did(1, "indexer", "pipeline") /\ Did(2, "acl", "acl") /\ Did(3, "indexer", "upsert")
    /\ \E c \in index : c.file_path = tmp_path(1) /\ c.file_id = "f1" /\ c.acl.owner = "admin"
    /\ \E c \in index : c.file_path = tmp_path(3) /\ c.file_id = "f1" /\ c.acl = NoAcl

(* What the indexer derives from an entry: event kind, file id, path *)
IndexerView(job) ==
    [event     |-> Normalize(job).event,
     file_id   |-> Normalize(job).file_id,
     file_path |-> Normalize(job).file_path]

(* C32 as stated: whichever consumer takes an entry off the list, the      *)
(* event kind, file id and path the ACL worker reads from its payload are  *)
(* those the indexer derives from it.                                      *)
C32_SameJobForBoth ==
    [][ (queue # <<>> /\ queue' = BRPop(queue) /\ Tail1(queue).valid)
          => AclJob(Tail1(queue).job) = IndexerView(Tail1(queue).job) ]_vars

(* The request just handled was decided by the HMAC check of this header  *)
(* value: the digest passes authentication, any other value ends the       *)
(* request (401, or 500 when hmac.compare_digest rejects the str) with     *)
(* nothing enqueued.                                                       *)
CheckedBy(value) ==
    IF value = HexDigest(WEBHOOK_SECRET, req'.body)
    THEN resp'.status # 401 /\ resp'.detail # "Internal Server Error"
    ELSE /\ Unqueued
         /\ resp' = IF IsAscii(value) THEN Response(401, "Invalid signature")
                    ELSE Response(500, "Internal Server Error")

(* C34 as stated: a request carrying only X-Signature is decided by the    *)
(* HMAC check of that value, and a request carrying both headers is        *)
(* decided by the HMAC check of the X-Signature-SHA256 value.              *)
C34_BothHeadersSupported ==
    [][ /\ (req'.xSigSha256 = None /\ req'.xSig # None) => CheckedBy(req'.xSig)
        /\ (req'.xSigSha256 # None /\ req'.xSig # None) => CheckedBy(req'.xSigSha256) ]_vars

(* C34 amended: an X-Signature-SHA256 header that is absent or empty       *)
(* counts as not sent.  A request whose X-Signature-SHA256 is not empty is *)
(* decided by the HMAC check of that value whatever X-Signature holds; a   *)
(* request whose X-Signature-SHA256 is absent or empty and whose           *)
(* X-Signature is not empty is decided by the same HMAC check of the       *)
(* X-Signature value.                                                      *)
C34_FirstNonEmptyHeaderChecked ==
    [][ /\ Truthy(req'.xSigSha256) => CheckedBy(req'.xSigSha256)
        /\ (~Truthy(req'.xSigSha256) /\ Truthy(req'.xSig)) => CheckedBy(req'.xSig) ]_vars

C34_Witness ==
    /\ WEBHOOK_SECRET = SenderKey
    /\ req.body # B_FlatCreated
    /\ req.xSigSha256 = HexDigest(SenderKey, B_FlatCreated)
    /\ req.xSig = HexDigest(WEBHOOK_SECRET, req.body)
    /\ resp = Response(401, "Invalid signature")
    /\ Len(queue) = 1

Idle == \A w \in DOMAIN pc : pc[w] = "idle"

(* C36 as stated: whenever no job is in progress, the file ids that have   *)
(* chunks in the index are the file ids that have a row in the metadata    *)
(* store.                                                                  *)
C36_IndexAndStoreAgree ==
    Idle => {c.file_id : c \in index} = {r.file_id : r \in db}

(* C37: the entries on the list are in the order of their acceptance, the  *)
(* oldest at the tail, and the single indexer takes an entry only when     *)
(* every entry accepted before it has been processed to completion.        *)
C37_ProcessedInAcceptanceOrder ==
    /\ \A i, j \in 1..Len(queue) : i < j => queue[i].tag > queue[j].tag
    /\ \A t1, t2 \in 1..MaxJobs :
          (t1 < t2 /\ Did(t2, "indexer", "popped")) => Completed(t1)

C37_Witness ==
    /\ Did(1, "indexer", "done")
    /\ Did(2, "indexer", "popped") /\ ~Completed(2)
    /\ QueueTags = {3}

(* The owner token a path carries, if any: acl_client.py:27 *)
ExplicitOwner(p) ==
    IF \E i \in 1..Len(p) : p[i] = "hartkens" THEN "hartkens" ELSE None

(* The groups whose rule a path matches, in any letter case *)
GroupsOf(p) ==
    {g \in {"marketing"} : \E i \in 1..Len(p) : p[i] \in {g, "Marketing"}}

(* The descriptor the chunks of the target file carry after the step *)
Applied == {c.acl : c \in {x \in index' : x.file_id = Target}}

WrittenAt(tag) ==
    IF \E k \in 1..(MaxRace + 1) : Did(tag, "write", ToString(k))
    THEN CHOOSE k \in 1..(MaxRace + 1) : Did(tag, "write", ToString(k))
    ELSE 0

(* The chunks of a file written last *)
LastWritten(file_id) ==
    {c \in index : /\ c.file_id = file_id
                   /\ \A o \in index : o.file_id = file_id
                         => WrittenAt(o.file_path) <= WrittenAt(c.file_path)}

(* C35 as stated: with two indexers, once every job has completed, the   *)
(* etag of a file's row is the etag of the chunks of the file that were  *)
(* written to the index last.                                            *)
C35_RowMatchesLastWrite ==
    (Idle /\ queue = <<>>)
        => \A r \in db : \A c \in LastWritten(r.file_id) : r.etag = c.etag

(* C38: an entry that a consumer has taken is no longer on the list, the *)
(* entries on the list are distinct, an entry is never taken by both an  *)
(* indexer and the ACL worker, and two indexers never hold the same one. *)
C38_DeliveredAtMostOnce ==
    /\ \A i \in 1..Len(queue) :
          /\ ~Did(queue[i].tag, "indexer", "popped")
          /\ ~Did(queue[i].tag, "acl", "popped")
          /\ \A j \in 1..Len(queue) : i # j => queue[i].tag # queue[j].tag
    /\ \A t \in 1..(MaxRace + 1) :
          ~(Did(t, "indexer", "popped") /\ Did(t, "acl", "popped"))
    /\ \A w1, w2 \in DOMAIN pc :
          (w1 # w2 /\ pc[w1] # "idle" /\ pc[w2] # "idle") => cur[w1].tag # cur[w2].tag

C38_Witness ==
    /\ pc["ix1"] # "idle" /\ pc["ix2"] # "idle"
    /\ cur["ix1"].tag # cur["ix2"].tag
    /\ \E t \in 1..MaxRace :
          Did(t, "acl", "popped") /\ t \notin {cur["ix1"].tag, cur["ix2"].tag}

=============================================================================
